---- MODULE Spec2Model ----
(***************************************************************************)
(* A model of hash_match.py: the bit-distance matrix of two sequences of   *)
(* 16-bit symbols, the dynamic time warping relaxation and its normalised  *)
(* score, the Keogh envelopes and bound, and match_one_sequence, which     *)
(* filters candidates by length, prunes them by the bound, scores the      *)
(* survivors and sorts them.                                               *)
(*                                                                         *)
(* Matrices are sequences of rows.  The code's 0-based indices are kept:   *)
(* At(M, i, j) reads M[i, j].  A float is the pair <<num, den>> of the     *)
(* division that produced it: den = 0 is what numpy returns for a division *)
(* by zero, inf for num > 0 and nan for num = 0.                           *)
(***************************************************************************)
EXTENDS Integers, Sequences, FiniteSets, TLC

VARIABLES query, query_length, sequences, lengths, length_tolerance,
          radius, gully, penalty,
          pc, start, end, u, l, n, keogh_bound,
          distance_matrix, path_length, score,
          best_so_far, matches, scores

vars == <<query, query_length, sequences, lengths, length_tolerance,
          radius, gully, penalty, pc, start, end, u, l, n, keogh_bound,
          distance_matrix, path_length, score, best_so_far, matches, scores>>

inputs == <<query, query_length, sequences, lengths, length_tolerance,
            radius, gully, penalty>>

(***************************************************************************)
(* Bounds of the model.                                                    *)
(***************************************************************************)
MaxSym == 2
MaxLen == 2
MaxCands == 2
MaxPairLen == 3
MaxPenalty == 1
MaxRadius == 2
MaxRangeCands == 5

(***************************************************************************)
(* Program constants and fixed-width arithmetic.                           *)
(***************************************************************************)
N_BITS == 16

U16(v) == v % (2 ^ N_BITS)

Min2(a, b) == IF a <= b THEN a ELSE b

\* bits_set[i] = (i & 1) + bits_set[i/2], bits_set[0] = 0
RECURSIVE bits_set(_)
bits_set(i) == IF i = 0 THEN 0 ELSE U16((i % 2) + bits_set(i \div 2))

\* a ^ b on unsigned integers
RECURSIVE Xor(_, _)
Xor(a, b) ==
  IF a = 0 /\ b = 0 THEN 0
  ELSE (((a % 2) + (b % 2)) % 2) + 2 * Xor(a \div 2, b \div 2)

(***************************************************************************)
(* Floats: the results of the code's two divisions, and np.inf.            *)
(***************************************************************************)
Inf == <<1, 0>>
NaN == <<0, 0>>

\* numerator / float(denominator) on numpy scalars: no exception on zero
FloatDiv(num, den) ==
  IF den = 0 THEN (IF num = 0 THEN NaN ELSE Inf) ELSE <<num, den>>

IsNaN(a) == a[2] = 0 /\ a[1] = 0
IsInf(a) == a[2] = 0 /\ a[1] > 0

\* a < b on floats: false whenever either side is nan
FloatLt(a, b) ==
  IF IsNaN(a) \/ IsNaN(b) \/ IsInf(a) THEN FALSE
  ELSE IF IsInf(b) THEN TRUE
  ELSE a[1] * b[2] < b[1] * a[2]

\* the order np.argsort sorts floats by: nan after everything else
SortLt(a, b) == IF IsNaN(b) THEN ~IsNaN(a) ELSE FloatLt(a, b)

(***************************************************************************)
(* int_dist                                                                *)
(***************************************************************************)
At(M, i, j) == M[i + 1][j + 1]

Put(M, i, j, v) == [M EXCEPT ![i + 1][j + 1] = v]

int_dist(x, y) ==
  [m \in 1..Len(x) |-> [k \in 1..Len(y) |-> bits_set(Xor(x[m], y[k]))]]

(***************************************************************************)
(* dtw_core                                                                *)
(***************************************************************************)
\* a diagonal test that takes the penalty off the other moves, not onto them
DiagonalMoveMinusPenalty(D, pen, i, j) ==
  /\ At(D, i, j) <= At(D, i, j + 1) - pen
  /\ At(D, i, j) <= At(D, i + 1, j) - pen

DiagonalMove(D, pen, i, j) ==
  /\ At(D, i, j) <= At(D, i, j + 1) + pen
  /\ At(D, i, j) <= At(D, i + 1, j) + pen

\* a horizontal test that leaves ties with the vertical move to the latter
HorizontalMoveStrict(D, pen, i, j) ==
  /\ At(D, i, j + 1) < At(D, i + 1, j)
  /\ At(D, i, j + 1) + pen <= At(D, i, j)

HorizontalMove(D, pen, i, j) ==
  /\ At(D, i, j + 1) <= At(D, i + 1, j)
  /\ At(D, i, j + 1) + pen <= At(D, i, j)

VerticalMove(D, pen, i, j) ==
  /\ At(D, i + 1, j) <= At(D, i, j + 1)
  /\ At(D, i + 1, j) + pen <= At(D, i, j)

\* one iteration of the loop body: the lowest cost to D[i + 1, j + 1]
dtw_cell(D, P, pen, i, j) ==
  IF DiagonalMove(D, pen, i, j)
  THEN [D |-> Put(D, i + 1, j + 1, U16(At(D, i + 1, j + 1) + At(D, i, j))),
        path_length |->
          Put(P, i + 1, j + 1, U16(At(P, i + 1, j + 1) + At(P, i, j) + 1))]
  ELSE IF HorizontalMove(D, pen, i, j)
  THEN [D |-> Put(D, i + 1, j + 1,
                  U16(At(D, i + 1, j + 1) + At(D, i, j + 1) + pen)),
        path_length |->
          Put(P, i + 1, j + 1, U16(At(P, i + 1, j + 1) + At(P, i, j + 1) + 1))]
  ELSE IF VerticalMove(D, pen, i, j)
  THEN [D |-> Put(D, i + 1, j + 1,
                  U16(At(D, i + 1, j + 1) + At(D, i + 1, j) + pen)),
        path_length |->
          Put(P, i + 1, j + 1, U16(At(P, i + 1, j + 1) + At(P, i + 1, j) + 1))]
  ELSE [D |-> D, path_length |-> P]

\* the two nested loops, cell k = i * (cols - 1) + j of the row-major scan;
\* m holds the two matrices, [D, path_length]
RECURSIVE dtw_scan(_, _, _)
dtw_scan(m, pen, k) ==
  IF k >= (Len(m.D) - 1) * (Len(m.D[1]) - 1)
  THEN m
  ELSE dtw_scan(dtw_cell(m.D, m.path_length, pen,
                         k \div (Len(m.D[1]) - 1), k % (Len(m.D[1]) - 1)),
                pen, k + 1)

dtw_core(D, pen, P) == dtw_scan([D |-> D, path_length |-> P], pen, 0)

(***************************************************************************)
(* dtw                                                                     *)
(***************************************************************************)
\* np.zeros(distance_matrix.shape)
Zeros(D) == [i \in 1..Len(D) |-> [j \in 1..Len(D[1]) |-> 0]]

\* np.argmin(f[lo:]) + lo for f indexed lo..hi: the first minimum
ArgMin(f, lo, hi) ==
  CHOOSE k \in lo..hi :
    \A m \in lo..hi : f[k] <= f[m] /\ (m < k => f[m] > f[k])

\* int(gully * min(rows, cols))
GullyOffset(D, g) == (g[1] * Min2(Len(D), Len(D[1]))) \div g[2]

\* lines 140-143: the last-column candidate i0 against the last-row one j0
ChooseEndpoint(D, i0, j0) ==
  IF At(D, Len(D) - 1, j0) > At(D, i0, Len(D[1]) - 1)
  THEN <<i0, Len(D[1]) - 1>>
  ELSE <<Len(D) - 1, j0>>

\* the endpoint chosen on the last row or the last column, from offset g on
Endpoint(D, g) ==
  ChooseEndpoint(
    D,
    ArgMin([k \in g..(Len(D) - 1) |-> At(D, k, Len(D[1]) - 1)],
           g, Len(D) - 1),
    ArgMin([k \in g..(Len(D[1]) - 1) |-> At(D, Len(D) - 1, k)],
           g, Len(D[1]) - 1))

\* the score at endpoint e of the relaxed matrices
ScoreAt(core, e) ==
  [D |-> core.D,
   path_length |-> core.path_length,
   i |-> e[1],
   j |-> e[2],
   score |-> FloatDiv(At(core.D, e[1], e[2]), At(core.path_length, e[1], e[2]))]

Traceback(core, g) == ScoreAt(core, Endpoint(core.D, g))

\* the matrices dtw leaves behind, the endpoint and the returned score
dtw(D0, g, pen) ==
  Traceback(dtw_core(D0, pen, Zeros(D0)), GullyOffset(D0, g))

(***************************************************************************)
(* keogh_envelopes and lb_keogh                                            *)
(***************************************************************************)
\* the index scipy's default boundary mode 'reflect' reads for position k
RECURSIVE Reflect(_, _)
Reflect(k, len) ==
  IF k < 0 THEN Reflect(-k - 1, len)
  ELSE IF k >= len THEN Reflect(2 * len - 1 - k, len)
  ELSE k

\* the values under a filter of the given size centred (origin 0) on i
Window(x, size, i) ==
  {x[Reflect(i - (size \div 2) + t, Len(x)) + 1] : t \in 0..(size - 1)}

SetMax(S) == CHOOSE v \in S : \A w \in S : w <= v

SetMin(S) == CHOOSE v \in S : \A w \in S : v <= w

maximum_filter1d(x, size) ==
  [i \in 1..Len(x) |-> SetMax(Window(x, size, i - 1))]

minimum_filter1d(x, size) ==
  [i \in 1..Len(x) |-> SetMin(Window(x, size, i - 1))]

keogh_envelopes(x, r) ==
  [u |-> maximum_filter1d(x, r), l |-> minimum_filter1d(x, r)]

RECURSIVE SumTo(_, _)
SumTo(f, k) == IF k = 0 THEN 0 ELSE f[k] + SumTo(f, k - 1)

lb_keogh(uu, ll, y) ==
  LET len == Min2(Len(uu), Len(y))
      above == [k \in 1..len |->
                  IF y[k] > uu[k] THEN bits_set(Xor(y[k], uu[k])) ELSE 0]
      below == [k \in 1..len |->
                  IF y[k] < ll[k] THEN bits_set(Xor(y[k], ll[k])) ELSE 0]
  IN  FloatDiv(SumTo(above, len) + SumTo(below, len), len)

(***************************************************************************)
(* match_one_sequence                                                      *)
(***************************************************************************)
\* np.searchsorted(a, v, side) for a key v = <<num, den>>: a binary search
RECURSIVE binsearch(_, _, _, _, _)
binsearch(a, v, side, lo, hi) ==
  IF lo >= hi THEN lo
  ELSE LET mid == lo + ((hi - lo) \div 2)
           below == IF side = "left"
                    THEN a[mid + 1] * v[2] < v[1]
                    ELSE a[mid + 1] * v[2] <= v[1]
       IN  IF below
           THEN binsearch(a, v, side, mid + 1, hi)
           ELSE binsearch(a, v, side, lo, mid)

\* a search that ignores the side it is asked for
searchsorted_left(a, v, side) == binsearch(a, v, "left", 0, Len(a))

searchsorted(a, v, side) == binsearch(a, v, side, 0, Len(a))

\* (1 - length_tolerance)*query_length and (1 + length_tolerance)*query_length
LowerLength(tol, qlen) == <<(tol[2] - tol[1]) * qlen, tol[2]>>

UpperLength(tol, qlen) == <<(tol[2] + tol[1]) * qlen, tol[2]>>

\* the orders np.argsort may return for a list of floats
Injective(f, k) == \A a, b \in 1..k : f[a] = f[b] => a = b

argsort(s) ==
  {p \in [1..Len(s) -> 1..Len(s)] :
     /\ Injective(p, Len(s))
     /\ \A k \in 1..(Len(s) - 1) : ~SortLt(s[p[k + 1]], s[p[k]])}

\* the sequence n names in the 0-based list of candidates
Candidate(k) == sequences[k + 1]

(***************************************************************************)
(* The inputs of a call.                                                   *)
(***************************************************************************)
Symbols == 0..MaxSym

SeqsUpTo(maxlen) == UNION {[1..k -> Symbols] : k \in 1..maxlen}

\* lists of at most maxn values of S
ListsUpTo(S, maxn) == UNION {[1..k -> S] : k \in 0..maxn}

IsSortedBy(list, f(_)) ==
  \A k \in 1..(Len(list) - 1) : f(list[k]) <= f(list[k + 1])

Same(v) == v

Gullies == {<<0, 1>>, <<1, 2>>}

\* the locals of match_one_sequence before their first assignment
Unset ==
  /\ pc = "start"
  /\ start = 0
  /\ end = 0
  /\ u = <<>>
  /\ l = <<>>
  /\ n = 0
  /\ keogh_bound = Inf
  /\ distance_matrix = <<>>
  /\ path_length = <<>>
  /\ score = Inf
  /\ best_so_far = Inf
  /\ matches = <<>>
  /\ scores = <<>>

\* a query and candidates whose lengths are their numbers of symbols
Init ==
  /\ query \in SeqsUpTo(MaxLen)
  /\ query_length = Len(query)
  /\ sequences \in {c \in ListsUpTo(SeqsUpTo(MaxLen), MaxCands) :
                      IsSortedBy(c, Len)}
  /\ lengths = [k \in 1..Len(sequences) |-> Len(sequences[k])]
  /\ length_tolerance \in {<<0, 1>>, <<1, 2>>}
  /\ radius \in 1..MaxRadius
  /\ gully \in Gullies
  /\ penalty \in 0..MaxPenalty
  /\ Unset

\* one query against one candidate, longer sequences.  int_dist reads the
\* symbols through x[m] ^ y[n] only, so the query's first symbol is 0.
InitPair ==
  /\ query \in {x \in SeqsUpTo(MaxPairLen) : x[1] = 0}
  /\ query_length = Len(query)
  /\ \E y \in SeqsUpTo(MaxPairLen) :
       /\ sequences = <<y>>
       /\ lengths = <<Len(y)>>
  /\ length_tolerance = <<1, 1>>
  /\ radius = 1
  /\ gully \in Gullies
  /\ penalty \in 0..MaxPenalty
  /\ Unset

\* lengths given apart from the sequences, as the parameters allow
LengthValues == {80, 90, 100, 110, 120}

InitRange ==
  /\ \E pair \in {<<(<<0, 1>>), (<<0, 1>>)>>, <<(<<0>>), (<<1>>)>>} :
       /\ query = pair[1]
       /\ \E k \in 0..MaxRangeCands : sequences = [m \in 1..k |-> pair[2]]
  /\ query_length \in {90, 100}
  /\ lengths \in {c \in [1..Len(sequences) -> LengthValues] :
                    IsSortedBy(c, Same)}
  /\ length_tolerance \in {<<0, 1>>, <<1, 10>>, <<1, 5>>}
  /\ radius = 1
  /\ gully = <<0, 1>>
  /\ penalty = 1
  /\ Unset

(***************************************************************************)
(* The steps of match_one_sequence.                                        *)
(***************************************************************************)
\* lines 234-245: the result lists, the length range and the envelopes.
\* n holds the index the loop visited last, start - 1 before the first.
Setup ==
  /\ pc = "start"
  /\ matches' = <<>>
  /\ scores' = <<>>
  /\ best_so_far' = Inf
  /\ start' = searchsorted(lengths,
                           LowerLength(length_tolerance, query_length), "left")
  /\ end' = searchsorted(lengths,
                         UpperLength(length_tolerance, query_length), "right")
  /\ u' = keogh_envelopes(query, radius).u
  /\ l' = keogh_envelopes(query, radius).l
  /\ n' = start' - 1
  /\ pc' = "loop"
  /\ UNCHANGED <<inputs, keogh_bound, distance_matrix, path_length, score>>

\* lines 246-261, the bound below the best score: align and record
Score ==
  /\ pc = "loop"
  /\ n + 1 < end
  /\ n' = n + 1
  /\ keogh_bound' = lb_keogh(u, l, Candidate(n'))
  /\ FloatLt(keogh_bound', best_so_far)
  /\ \E r \in {dtw(int_dist(query, Candidate(n')), gully, penalty)} :
         /\ distance_matrix' = r.D
         /\ path_length' = r.path_length
         /\ score' = r.score
         /\ matches' = Append(matches, n')
         /\ scores' = Append(scores, r.score)
         /\ best_so_far' = IF FloatLt(r.score, best_so_far)
                           THEN r.score
                           ELSE best_so_far
  /\ UNCHANGED <<inputs, pc, start, end, u, l>>

\* lines 246-249, the bound not below the best score: the candidate is skipped
Prune ==
  /\ pc = "loop"
  /\ n + 1 < end
  /\ n' = n + 1
  /\ keogh_bound' = lb_keogh(u, l, Candidate(n'))
  /\ ~FloatLt(keogh_bound', best_so_far)
  /\ UNCHANGED <<inputs, pc, start, end, u, l, distance_matrix, path_length,
                 score, best_so_far, matches, scores>>

\* lines 262-266: both lists reordered by np.argsort(scores)
Sort ==
  /\ pc = "loop"
  /\ n + 1 >= end
  /\ \E sorted_idx \in argsort(scores) :
       /\ matches' = [k \in 1..Len(scores) |-> matches[sorted_idx[k]]]
       /\ scores' = [k \in 1..Len(scores) |-> scores[sorted_idx[k]]]
  /\ pc' = "done"
  /\ UNCHANGED <<inputs, start, end, u, l, n, keogh_bound, distance_matrix,
                 path_length, score, best_so_far>>

Next == Setup \/ Score \/ Prune \/ Sort

Spec == Init /\ [][Next]_vars

\* with a single candidate best_so_far is still np.inf when it is visited and
\* no bound reaches it: the loop never skips
NextPair == Setup \/ Score \/ Sort

SpecPair == InitPair /\ [][NextPair]_vars

SpecRange == InitRange /\ [][Next]_vars

(***************************************************************************)
(* Properties.                                                             *)
(***************************************************************************)
\* the loop has just aligned candidate n: distance_matrix, path_length and
\* score are those of dtw on int_dist(query, sequences[n])
Scored ==
  /\ pc = "loop"
  /\ Len(matches) > 0
  /\ matches[Len(matches)] = n

\* the loop has just skipped candidate n
Skipped ==
  /\ pc = "loop"
  /\ n >= start
  /\ ~Scored

Raw == int_dist(query, Candidate(n))

NoGully == <<0, 1>>

Range(f) == {f[k] : k \in DOMAIN f}

\* a <= b on floats: false whenever either side is nan
FloatLe(a, b) ==
  IF IsNaN(a) \/ IsNaN(b) THEN FALSE
  ELSE IF IsInf(b) THEN TRUE
  ELSE IF IsInf(a) THEN FALSE
  ELSE a[1] * b[2] <= b[1] * a[2]

\* the cumulative cost at the endpoint of an alignment r
EndpointCost(r) == At(r.D, r.i, r.j)

\* the endpoint dtw selected on the matrices it left in the state
Here ==
  Traceback([D |-> distance_matrix, path_length |-> path_length],
            GullyOffset(distance_matrix, gully))

\* C1: with gully = 0 the Keogh bound of a candidate never exceeds the DTW
\* score of the same two sequences (bound > score never holds).
C1_KeoghBoundBelowDtw ==
  (Scored /\ gully = NoGully) => ~FloatLt(score, keogh_bound)

\* C2: a skipped candidate's DTW score is never lower than best_so_far at
\* that moment, and the first returned entry has the minimum DTW score among
\* all candidates inside the length tolerance.
C2_PruningKeepsTheBest ==
  /\ Skipped =>
       ~FloatLt(dtw(Raw, gully, penalty).score, best_so_far)
  /\ (pc = "done" /\ Len(scores) > 0) =>
       \A k \in start..(end - 1) :
         ~FloatLt(dtw(int_dist(query, Candidate(k)), gully, penalty).score,
                  scores[1])

\* (1 - tol) * queryLength <= len <= (1 + tol) * queryLength
InTolerance(len) ==
  /\ (length_tolerance[2] - length_tolerance[1]) * query_length
       <= len * length_tolerance[2]
  /\ len * length_tolerance[2]
       <= (length_tolerance[2] + length_tolerance[1]) * query_length

\* C3: for sorted lengths, [start, end) is exactly the set of indices whose
\* length lies in the tolerance interval, both ends included, and no returned
\* index has a length outside it.
C3_RangeIsTheToleranceInterval ==
  pc # "start" =>
    /\ \A k \in 0..(Len(lengths) - 1) :
         (start <= k /\ k < end) <=> InTolerance(lengths[k + 1])
    /\ \A k \in 1..Len(matches) : InTolerance(lengths[matches[k] + 1])

\* the spec's scenario: lengths 80..120, query length 100, tolerance 0.1 give
\* the three entries 90, 100, 110
C3_Witness ==
  /\ pc = "done"
  /\ lengths = <<80, 90, 100, 110, 120>>
  /\ query_length = 100
  /\ length_tolerance = <<1, 10>>
  /\ start = 1
  /\ end = 4
  /\ Range(matches) = {1, 2, 3}

\* C4: the returned scores are non-decreasing, scores[k] <= scores[k+1].
C4_ScoresNonDecreasing ==
  pc = "done" =>
    \A k \in 1..(Len(scores) - 1) : FloatLe(scores[k], scores[k + 1])

\* C5: the endpoint dtw selects has path_length >= 1, so the score is a
\* finite number >= 0.
C5_EndpointPathLengthPositive ==
  Scored =>
    /\ score[2] >= 1
    /\ score[1] >= 0
    /\ \E r \in {Here} : At(path_length, r.i, r.j) >= 1

\* C6: a sequence aligned against itself with gully = 0 and penalty = 1
\* scores exactly 0.0.
C6_SelfAlignmentIsZero ==
  (Scored /\ Candidate(n) = query /\ gully = NoGully /\ penalty = 1) =>
    (score[1] = 0 /\ score[2] >= 1)

\* C7 as stated: for the same raw matrix and gully, a larger penalty never
\* gives a lower score and a smaller one never a higher score.
C7_ScoreMonotoneInPenalty ==
  Scored =>
    \A p \in 0..MaxPenalty :
      /\ p >= penalty => ~FloatLt(dtw(Raw, gully, p).score, score)
      /\ p <= penalty => ~FloatLt(score, dtw(Raw, gully, p).score)

\* every cumulative cost of alignment a is at most that of alignment b
CostsAtMost(a, b) ==
  /\ \A i \in 1..Len(a.D) : \A j \in 1..Len(a.D[1]) : a.D[i][j] <= b.D[i][j]
  /\ EndpointCost(a) <= EndpointCost(b)

\* C7 amended: for the same raw matrix and gully, raising the penalty by one
\* lowers no cumulative cost of the relaxed matrix, and so not the cost at the
\* endpoint dtw selects (the numerator of the score).  Every penalty below
\* MaxPenalty is a state's penalty here, so the costs are monotone in it.
C7_EndpointCostMonotoneInPenalty ==
  (Scored /\ penalty < MaxPenalty) =>
    \E here \in {Here} :
      \E other \in {dtw(Raw, gully, penalty + 1)} : CostsAtMost(here, other)

\* a larger penalty at which the endpoint cost is no lower and yet the score,
\* divided by a longer path, is
C7_Witness ==
  /\ Scored
  /\ \E p \in 0..MaxPenalty :
       \E other \in {dtw(Raw, gully, p)} :
         /\ p > penalty
         /\ EndpointCost(other) >= EndpointCost(Here)
         /\ EndpointCost(other) > 0
         /\ FloatLt(other.score, score)

\* the envelope of radius r, clipped at the edges
RadiusWindow(x, r, i) ==
  {x[k] : k \in {m \in 1..Len(x) : i - r <= m /\ m <= i + r}}

\* C8: u[i] = max(x[i-r..i+r]) and l[i] = min(x[i-r..i+r]), a window of full
\* width 2r+1 centred on i, and both have the length of x.
C8_EnvelopeHasFullWidth ==
  pc # "start" =>
    /\ Len(u) = Len(query)
    /\ Len(l) = Len(query)
    /\ \A i \in 1..Len(query) :
         /\ u[i] = SetMax(RadiusWindow(query, radius, i))
         /\ l[i] = SetMin(RadiusWindow(query, radius, i))

\* m is the minimum of the floats of list s, infinity when s is empty
IsMinimumOf(m, s) ==
  IF Len(s) = 0 THEN m = Inf
  ELSE /\ m \in Range(s)
       /\ \A k \in 1..Len(s) : FloatLe(m, s[k])

\* the scores appended before the loop reached index k
ScoresBefore(k) ==
  SubSeq(scores, 1, Cardinality({j \in 1..Len(matches) : matches[j] < k}))

\* C9: during the loop best_so_far is the minimum of the scores appended so
\* far; every visited index is in matches exactly once if its bound was
\* strictly below that minimum when it was visited and not at all otherwise;
\* after the sort every returned index is paired with its own DTW score.
C9_MatchesAndBestSoFar ==
  /\ pc = "loop" =>
       /\ IsMinimumOf(best_so_far, scores)
       /\ \A j, k \in 1..Len(matches) : matches[j] = matches[k] => j = k
       /\ \A k \in start..n :
            (k \in Range(matches)) <=>
              \E m \in Range(scores) \cup {Inf} :
                /\ IsMinimumOf(m, ScoresBefore(k))
                /\ FloatLt(lb_keogh(u, l, Candidate(k)), m)
  /\ pc = "done" =>
       /\ Len(matches) = Len(scores)
       /\ \A j, k \in 1..Len(matches) : matches[j] = matches[k] => j = k
       /\ \A k \in 1..Len(matches) :
            /\ matches[k] \in start..(end - 1)
            /\ scores[k] =
                 dtw(int_dist(query, Candidate(matches[k])),
                     gully, penalty).score

Min3(a, b, c) == Min2(a, Min2(b, c))

\* cell (i + 1, j + 1) against its raw distance and the costs d, h, v of
\* reaching it by the diagonal, the horizontal and the vertical move
CellTookCheapest(raw, D, P, i, j, d, h, v) ==
  At(raw, i + 1, j + 1) + Min3(d, h, v) < 2 ^ N_BITS =>
    /\ At(D, i + 1, j + 1) = At(raw, i + 1, j + 1) + Min3(d, h, v)
    /\ At(P, i + 1, j + 1) =
         1 + (IF d <= h /\ d <= v THEN At(P, i, j)
              ELSE IF h <= v THEN At(P, i, j + 1)
              ELSE At(P, i + 1, j))
    /\ At(P, i + 1, j + 1) >= 1

AllCellsTookCheapest(raw, D, P, pen) ==
  \A i \in 0..(Len(D) - 2) :
    \A j \in 0..(Len(D[1]) - 2) :
      \E d \in {At(D, i, j)} :
        \E h \in {At(D, i, j + 1) + pen} :
          \E v \in {At(D, i + 1, j) + pen} :
            CellTookCheapest(raw, D, P, i, j, d, h, v)

\* C10: without overflow, after the scan every interior cell holds its raw
\* distance plus min(D[i, j], D[i, j+1] + pen, D[i+1, j] + pen) and its
\* path_length is the chosen predecessor's plus 1, the diagonal preferred on
\* ties, then D[i, j+1] over D[i+1, j]; no interior cell is left unmodified.
C10_EveryCellTakesTheCheapestMove ==
  Scored =>
    \E raw \in {Raw} :
      AllCellsTookCheapest(raw, distance_matrix, path_length, penalty)

\* a 3 x 3 alignment in which some cell took each of the three moves
C10_Witness ==
  /\ Scored
  /\ Len(distance_matrix) = 3
  /\ Len(distance_matrix[1]) = 3
  /\ \E a, b, c \in (0..1) \X (0..1) :
       /\ DiagonalMove(distance_matrix, penalty, a[1], a[2])
       /\ ~DiagonalMove(distance_matrix, penalty, b[1], b[2])
       /\ HorizontalMove(distance_matrix, penalty, b[1], b[2])
       /\ ~DiagonalMove(distance_matrix, penalty, c[1], c[2])
       /\ ~HorizontalMove(distance_matrix, penalty, c[1], c[2])
       /\ VerticalMove(distance_matrix, penalty, c[1], c[2])

====
